---- MODULE Spec2Model ----
(***************************************************************************)
(* A model of ekya/models/ekya_resnet.py: the Resnet wrapper class.        *)
(*                                                                         *)
(* Tensors are abstracted to small integers.  The state dict of the model  *)
(* has four entries: "backbone" (the convolutional parameters of the       *)
(* torchvision network), "bn" (the batch-norm running statistics, buffers  *)
(* that a forward pass in training mode updates), "fc" (model.fc) and      *)
(* "out" (the Linear layer appended by nn.Sequential).                     *)
(* Floats are rationals [num, den].  One loader yields its dataset as one  *)
(* batch.  The criterion is abstracted to the 0-1 loss: the loss summed    *)
(* over a dataset is its number of misclassified samples.                  *)
(***************************************************************************)
EXTENDS Integers, Sequences, FiniteSets, TLC

VARIABLES
    hyperparameters,   \* self.hyperparameters
    model,             \* self.model: [arch, wts, requires_grad, training]
    params_to_update,  \* self.params_to_update: a list or a generator
    files,             \* the disk: path -> saved state dict
    pc,                \* position of the running operation
    call,              \* the locals of the running train_model call
    hist,              \* history: what the running call observed
    ret                \* outcome of the last operation

vars == <<hyperparameters, model, params_to_update, files, pc, call, hist, ret>>

-----------------------------------------------------------------------------
(* Bounds and input domains *)

MaxEpochs == 2

WVals == {0, 1}
Paths == {"ckpt"}
None == [none |-> TRUE]
NoFile == [nofile |-> TRUE]
EmptyDict == [k \in {} |-> 0]

(* Rationals *)
Rat(a, b) == [num |-> a, den |-> b]
RatZero == Rat(0, 1)
Gt(a, b) == a.num * b.den > b.num * a.den
RatEq(a, b) == a.num * b.den = b.num * a.den

-----------------------------------------------------------------------------
(* The constructor *)

DEFAULT_HYPER_PARAMS ==
    [num_hidden |-> 512, last_layer_only |-> TRUE, model_name |-> "resnet18"]

WithClasses(hp) ==
    [num_hidden |-> hp.num_hidden, last_layer_only |-> hp.last_layer_only,
     model_name |-> hp.model_name, num_classes |-> 10]

ModelNames == {"resnet18", "resnet50", "resnet101", "resnet152", "vgg16"}

\* dicts holding exactly the three documented keys
ThreeKeyHyper ==
    {[num_hidden |-> 512, last_layer_only |-> TRUE, model_name |-> n] : n \in ModelNames}

\* the hyperparameter dicts the constructor is given
HyperChoices ==
    ThreeKeyHyper
    \cup {EmptyDict}
    \cup {WithClasses([num_hidden |-> 512, last_layer_only |-> l, model_name |-> "resnet18"]) :
            l \in BOOLEAN}
    \cup {WithClasses([num_hidden |-> 512, last_layer_only |-> TRUE, model_name |-> n]) :
            n \in {"resnet50", "vgg16"}}

NotFound == "NotFound"

get_model_from_str(model_str) ==
    IF model_str = "resnet18" THEN "models.resnet18"
    ELSE IF model_str = "resnet50" THEN "models.resnet50"
    ELSE IF model_str = "resnet101" THEN "models.resnet101"
    ELSE IF model_str = "resnet152" THEN "models.resnet152"
    ELSE NotFound

\* self.model_class(pretrained=pretrained): the torchvision network, every
\* parameter trainable, in training mode; v0 is the random initialisation.
model_class(cls, pretrained, v0) ==
    [arch |-> [name |-> cls, num_hidden |-> 0, num_classes |-> 1000],
     wts |-> [k \in {"backbone", "bn", "fc"} |-> IF pretrained THEN 0 ELSE v0],
     requires_grad |-> [p \in {"backbone", "fc"} |-> TRUE],
     training |-> TRUE]

set_parameter_requires_grad(m, last_layer_only) ==
    IF last_layer_only
    THEN [m EXCEPT !.requires_grad = [p \in DOMAIN m.requires_grad |-> FALSE]]
    ELSE m

\* model.fc is replaced by a fresh Linear and a fresh Linear is appended;
\* fresh layers are trainable and randomly initialised (v0).
initialize_last_layer(m, num_classes, num_hidden, v0) ==
    [arch |-> [name |-> m.arch.name, num_hidden |-> num_hidden, num_classes |-> num_classes],
     wts |-> [k \in DOMAIN m.wts \cup {"fc", "out"} |->
                 IF k \in {"fc", "out"} THEN v0 ELSE m.wts[k]],
     requires_grad |-> [p \in DOMAIN m.requires_grad \cup {"fc", "out"} |->
                 IF p \in {"fc", "out"} THEN TRUE ELSE m.requires_grad[p]],
     training |-> m.training]

\* A list can be iterated any number of times; a generator yields its
\* items once.
set_params_to_update(m, last_layer_only) ==
    IF last_layer_only
    THEN [kind |-> "list",
          items |-> {p \in DOMAIN m.requires_grad : m.requires_grad[p]}]
    ELSE [kind |-> "generator", items |-> DOMAIN m.requires_grad]

\* a constructor that freezes after the head is in place
BuildModelFreezeLast(hp, cls, pretrained, v0) ==
    set_parameter_requires_grad(
        initialize_last_layer(model_class(cls, pretrained, v0),
                              hp.num_classes, hp.num_hidden, v0),
        hp.last_layer_only)

\* the model the constructor builds before any restore (lines 22-26)
BuildModel(hp, cls, pretrained, v0) ==
    initialize_last_layer(
        set_parameter_requires_grad(model_class(cls, pretrained, v0), hp.last_layer_only),
        hp.num_classes, hp.num_hidden, v0)

-----------------------------------------------------------------------------
(* Persistence *)

state_dict(m) == [arch |-> m.arch, wts |-> m.wts]

\* the shape of one entry of a state dict
KeyShape(arch, k) ==
    IF k \in {"backbone", "bn"} THEN <<arch.name>>
    ELSE IF k = "fc" THEN <<arch.name, arch.num_hidden>>
    ELSE <<arch.num_hidden, arch.num_classes>>

Matches(m, sd) ==
    /\ DOMAIN sd.wts = DOMAIN m.wts
    /\ \A k \in DOMAIN m.wts : KeyShape(sd.arch, k) = KeyShape(m.arch, k)

\* load_state_dict copies every entry whose key and shape match and
\* leaves requires_grad and the mode alone; it raises after copying when
\* something did not match.
load_state_dict(m, sd) ==
    [m EXCEPT !.wts = [k \in DOMAIN m.wts |->
        IF k \in DOMAIN sd.wts /\ KeyShape(sd.arch, k) = KeyShape(m.arch, k)
        THEN sd.wts[k] ELSE m.wts[k]]]

\* the outcome of self.load(path) on model m
LoadError(m, path) ==
    IF files[path] = NoFile THEN "FileNotFoundError"
    ELSE IF ~Matches(m, files[path]) THEN "RuntimeError"
    ELSE "ok"

LoadedModel(m, path) ==
    IF files[path] = NoFile THEN m ELSE load_state_dict(m, files[path])

\* a constructor that restores before the head is rebuilt
ConstructModelRestoreFirst(hp, cls, pretrained, v0, restore_path) ==
    LET base == set_parameter_requires_grad(model_class(cls, pretrained, v0),
                                            hp.last_layer_only)
    IN  initialize_last_layer(
            IF restore_path # "" THEN LoadedModel(base, restore_path) ELSE base,
            hp.num_classes, hp.num_hidden, v0)

\* lines 22-29: the model is built, its head included, and then restored
ConstructModel(hp, cls, pretrained, v0, restore_path) ==
    IF restore_path # ""
    THEN LoadedModel(BuildModel(hp, cls, pretrained, v0), restore_path)
    ELSE BuildModel(hp, cls, pretrained, v0)

-----------------------------------------------------------------------------
(* Modes and the forward pass *)

SetTrain(m) == [m EXCEPT !.training = TRUE]
SetEval(m) == [m EXCEPT !.training = FALSE]

\* a forward pass: in training mode the batch-norm statistics move
Forward(m, v) == IF m.training THEN [m EXCEPT !.wts["bn"] = v] ELSE m

\* optimizer.step(): the parameters of the optimizer that have a gradient
SGDStep(m, optimizer, v) ==
    [m EXCEPT !.wts = [k \in DOMAIN m.wts |->
        IF k \in optimizer /\ m.requires_grad[k] THEN v ELSE m.wts[k]]]

\* the outcome of an operation: what was called, with what, and how it ended
Returned(op, args, value) ==
    [op |-> op, args |-> args, status |-> "returned", exc |-> "", value |-> value]
Raised(op, args, exc) ==
    [op |-> op, args |-> args, status |-> "raised", exc |-> exc, value |-> None]
Running(op, args) ==
    [op |-> op, args |-> args, status |-> "running", exc |-> "", value |-> None]

NoCall == [nocall |-> TRUE]
NoHist == [nohist |-> TRUE]

-----------------------------------------------------------------------------
Init ==
    /\ hyperparameters = None
    /\ model = None
    /\ params_to_update = None
    /\ files = [p \in Paths |-> NoFile]
    /\ pc = "idle"
    /\ call = NoCall
    /\ hist = NoHist
    /\ ret = Returned("start", None, None)

\* Resnet.__init__(hyperparameters, pretrained, restore_path)
Resnet_init(hp_arg, pretrained, restore_path, v0) ==
    /\ pc = "idle"
    /\ LET hp == IF hp_arg = EmptyDict THEN DEFAULT_HYPER_PARAMS ELSE hp_arg
           cls == get_model_from_str(hp_arg.model_name)
           m == BuildModel(hp, cls, pretrained, v0)
           args == [hyperparameters |-> hp_arg, restore_path |-> restore_path]
           fail(exc) ==
               /\ ret' = Raised("Resnet", args, exc)
               /\ UNCHANGED <<hyperparameters, model, params_to_update>>
       IN  /\ IF "model_name" \notin DOMAIN hp_arg
              THEN fail("KeyError: model_name")
              ELSE IF cls = NotFound
              THEN fail("Exception: Model not found")
              ELSE IF "num_classes" \notin DOMAIN hp
              THEN fail("KeyError: num_classes")
              ELSE IF restore_path # "" /\ LoadError(m, restore_path) # "ok"
              THEN fail(LoadError(m, restore_path))
              ELSE /\ hyperparameters' = hp
                   /\ model' = ConstructModel(hp, cls, pretrained, v0, restore_path)
                   /\ params_to_update' = set_params_to_update(m, hp.last_layer_only)
                   /\ ret' = Returned("Resnet", args, None)
    /\ call' = NoCall
    /\ hist' = NoHist
    /\ UNCHANGED <<files, pc>>

\* Resnet.save(path)
save(path) ==
    /\ pc = "idle"
    /\ model # None
    /\ files' = [files EXCEPT ![path] = state_dict(model)]
    /\ ret' = Returned("save", path, None)
    /\ call' = NoCall
    /\ hist' = NoHist
    /\ UNCHANGED <<hyperparameters, model, params_to_update, pc>>

\* Resnet.load(path)
load(path) ==
    /\ pc = "idle"
    /\ model # None
    /\ model' = LoadedModel(model, path)
    /\ ret' = IF LoadError(model, path) = "ok"
              THEN Returned("load", path, None)
              ELSE Raised("load", path, LoadError(model, path))
    /\ call' = NoCall
    /\ hist' = NoHist
    /\ UNCHANGED <<hyperparameters, params_to_update, files, pc>>

\* an infer that leaves the model in the mode it finds it in
infer_model_no_eval(m, v) == Forward(m, v)

\* Resnet.infer(dataloader): what it does to the model, and what it returns
infer_model(m, v) == Forward(SetEval(m), v)
infer_acc(dataloader, corrects) == Rat(corrects, dataloader.n)

infer(dataloader) ==
    /\ pc = "idle"
    /\ model # None
    /\ \E v \in WVals, corrects \in 0..dataloader.n :
          /\ model' = infer_model(model, v)
          /\ ret' = Returned("infer", dataloader,
                       [corrects |-> corrects, acc |-> infer_acc(dataloader, corrects)])
    /\ call' = NoCall
    /\ hist' = NoHist
    /\ UNCHANGED <<hyperparameters, params_to_update, files, pc>>

-----------------------------------------------------------------------------
(* train_model *)

Loader(n) == [n |-> n]
Entry(phase, loader) == [phase |-> phase, loader |-> loader]

\* dataloaders: a dict in insertion order, as a sequence of entries
HasKey(d, key) == \E i \in 1..Len(d) : d[i].phase = key
Lookup(d, key) == d[CHOOSE i \in 1..Len(d) : d[i].phase = key].loader

DataloaderChoices ==
    { <<Entry("train", Loader(1))>>,
      <<Entry("train", Loader(1)), Entry("val", Loader(2))>>,
      <<Entry("val", Loader(2)), Entry("train", Loader(1))>>,
      <<Entry("train", Loader(1)), Entry("val", Loader(2)), Entry("test", Loader(1))>>,
      <<Entry("train", None)>>,
      <<Entry("val", Loader(2))>> }

SmallDataloaderChoices ==
    { <<Entry("train", Loader(1)), Entry("val", Loader(1))>>,
      <<Entry("train", None)>> }

\* subprofile_test_epochs: None, or {epoch_num: {taskid: test_dataloader}}
OneTask == [t \in {"t1"} |-> Loader(1)]
TwoTasks == [t \in {"t1", "t2"} |-> Loader(1)]
SubprofileChoices ==
    { None,
      [dict |-> EmptyDict],
      [dict |-> [e \in {1} |-> OneTask]],
      [dict |-> [e \in {0, MaxEpochs} |-> IF e = 0 THEN OneTask ELSE TwoTasks]] }

\* the numbers of correct predictions infer can count on each task
InferCorrects(tasks) ==
    {c \in [DOMAIN tasks -> 0..2] : \A t \in DOMAIN tasks : c[t] <= tasks[t].n}

\* the same for every task of the epochs `tested` of the dict spe
InferOutcomes(spe, tested) ==
    {c \in [tested -> UNION {InferCorrects(spe[e]) : e \in tested}] :
        \A e \in tested : c[e] \in InferCorrects(spe[e])}

\* the loss summed over a dataset of n samples, corrects of them classified right
RunningLoss(n, corrects) == n - corrects

\* a scheduler stepped after the validation phase
StepsSchedulerOnVal(phase) == phase = "val"

\* the phase after which the plateau scheduler is stepped (line 157)
StepsScheduler(phase) == phase = "train"

\* a checkpoint replaced on ties too
IsBetterOrEqual(epoch_acc, best_acc) == ~Gt(best_acc, epoch_acc)

\* the condition under which the checkpoint is replaced (line 164)
IsBetter(epoch_acc, best_acc) == Gt(epoch_acc, best_acc)

\* optim.SGD(params): list(params); a generator is exhausted by it
OptimizerParams(ptu) == ptu.items
AfterIteration(ptu) ==
    IF ptu.kind = "generator" THEN [ptu EXCEPT !.items = {}] ELSE ptu

\* profile_data[phase][metric] of the nested defaultdict
Metric(profile_data, phase, metric) ==
    IF phase \in DOMAIN profile_data THEN profile_data[phase][metric]
    ELSE IF metric \in {"loss", "acc"} THEN RatZero ELSE 0

\* a profile entry without its timestamp
profile_this_epoch_no_timestamp(epoch_start_time, pd) ==
    <<Metric(pd, "train", "time"), Metric(pd, "train", "loss"),
      Metric(pd, "train", "acc"), Metric(pd, "train", "num_samples"),
      Metric(pd, "val", "time"), Metric(pd, "val", "loss"),
      Metric(pd, "val", "acc"), Metric(pd, "val", "num_samples"),
      Metric(pd, "test", "time"), Metric(pd, "test", "loss"),
      Metric(pd, "test", "acc"), Metric(pd, "test", "num_samples")>>

\* lines 173-176
profile_this_epoch(epoch_start_time, pd) ==
    <<epoch_start_time,
      Metric(pd, "train", "time"), Metric(pd, "train", "loss"),
      Metric(pd, "train", "acc"), Metric(pd, "train", "num_samples"),
      Metric(pd, "val", "time"), Metric(pd, "val", "loss"),
      Metric(pd, "val", "acc"), Metric(pd, "val", "num_samples"),
      Metric(pd, "test", "time"), Metric(pd, "test", "loss"),
      Metric(pd, "test", "acc"), Metric(pd, "test", "num_samples")>>

\* epochs counted from one
TestedAtOneBased(spe, epoch) == IF epoch + 1 \in DOMAIN spe.dict THEN {epoch + 1} ELSE {}

\* the epochs of subprofile_test_epochs that are tested after epoch `epoch`
\* of the training loop (line 180)
TestedAt(spe, epoch) == IF epoch \in DOMAIN spe.dict THEN {epoch} ELSE {}

\* lines 82-95 and the loop headers
TrainBegin(dataloaders, subprofile_test_epochs, num_epochs) ==
    /\ pc = "idle"
    /\ model # None
    /\ params_to_update' = AfterIteration(params_to_update)
    /\ IF OptimizerParams(params_to_update) = {}
       THEN /\ ret' = Raised("train_model", dataloaders,
                             "ValueError: optimizer got an empty parameter list")
            /\ call' = NoCall
            /\ hist' = NoHist
            /\ pc' = "idle"
       ELSE IF ~HasKey(dataloaders, "train")
       THEN /\ ret' = Raised("train_model", dataloaders, "KeyError: train")
            /\ call' = NoCall
            /\ hist' = NoHist
            /\ pc' = "idle"
       ELSE /\ call' = [dataloaders |-> dataloaders,
                        subprofile_test_epochs |-> subprofile_test_epochs,
                        num_epochs |-> num_epochs,
                        optimizer |-> OptimizerParams(params_to_update),
                        scheduler |-> <<>>,
                        val_acc_history |-> <<>>,
                        best_model_wts |-> state_dict(model),
                        best_acc |-> RatZero,
                        profile |-> <<>>,
                        subprofile_test_results |-> EmptyDict,
                        epoch |-> 0,
                        phase_idx |-> 1,
                        epoch_start_time |-> 1,
                        clock |-> 2,
                        profile_data |-> EmptyDict]
            /\ hist' = [wts_before |-> model.wts, val_end |-> <<>>]
            /\ ret' = Running("train_model", dataloaders)
            /\ pc' = IF Lookup(dataloaders, "train") = None THEN "subprofile"
                     ELSE IF num_epochs = 0 THEN "finish"
                     ELSE "phase"
    /\ UNCHANGED <<hyperparameters, model, files>>

\* lines 95-104: no train loader, inference on every task of every epoch key
TrainSubprofileOnly ==
    /\ pc = "subprofile"
    /\ IF call.subprofile_test_epochs = None
       THEN /\ ret' = Raised("train_model", call.dataloaders,
                             "AttributeError: NoneType has no keys")
            /\ pc' = "idle"
            /\ UNCHANGED <<model, call>>
       ELSE LET spe == call.subprofile_test_epochs.dict
            IN \E v \in WVals :
               \E c \in InferOutcomes(spe, DOMAIN spe) :
                  /\ model' = IF DOMAIN spe = {} THEN model ELSE infer_model(model, v)
                  /\ call' = [call EXCEPT !.subprofile_test_results =
                                [e \in DOMAIN spe |->
                                   [t \in DOMAIN spe[e] |-> infer_acc(spe[e][t], c[e][t])]]]
                  /\ pc' = "finish"
                  /\ UNCHANGED ret
    /\ UNCHANGED <<hyperparameters, params_to_update, files, hist>>

\* lines 115-172: one phase of one epoch
TrainPhase ==
    /\ pc = "phase"
    /\ LET phase == call.dataloaders[call.phase_idx].phase
           loader == call.dataloaders[call.phase_idx].loader
           n == loader.n
       IN \E v \in WVals, corrects \in 0..n :
          LET m1 == IF phase = "train" THEN SetTrain(model) ELSE SetEval(model)
              m2 == Forward(m1, v)
              m3 == IF phase = "train" THEN SGDStep(m2, call.optimizer, v) ELSE m2
              start_time == call.clock
              end_time == call.clock + 1
              epoch_loss == Rat(RunningLoss(n, corrects), n)
              epoch_acc == Rat(corrects, n)
              better == phase = "val" /\ IsBetter(epoch_acc, call.best_acc)
              data == [time |-> end_time - start_time, loss |-> epoch_loss,
                       acc |-> epoch_acc, num_samples |-> n]
          IN /\ model' = m3
             /\ call' = [call EXCEPT
                   !.scheduler = IF StepsScheduler(phase) THEN Append(@, epoch_loss) ELSE @,
                   !.val_acc_history = IF better THEN Append(@, epoch_acc) ELSE @,
                   !.best_acc = IF better THEN epoch_acc ELSE @,
                   !.best_model_wts = IF better THEN state_dict(m3) ELSE @,
                   !.profile_data = [p \in DOMAIN @ \cup {phase} |->
                                       IF p = phase THEN data ELSE @[p]],
                   !.clock = @ + 2,
                   !.phase_idx = @ + 1]
             /\ hist' = IF phase = "val"
                        THEN [hist EXCEPT !.val_end =
                                Append(@, [epoch |-> call.epoch, acc |-> epoch_acc, wts |-> m3.wts])]
                        ELSE hist
             /\ pc' = IF call.phase_idx = Len(call.dataloaders) THEN "epoch_end" ELSE "phase"
    /\ UNCHANGED <<hyperparameters, params_to_update, files, ret>>

\* lines 173-184: the epoch's profile entry, then the subprofile tests
TrainEpochEnd ==
    /\ pc = "epoch_end"
    /\ IF call.subprofile_test_epochs = None
       THEN /\ ret' = Raised("train_model", call.dataloaders,
                             "AttributeError: NoneType has no keys")
            /\ pc' = "idle"
            /\ UNCHANGED <<model, call>>
       ELSE LET spe == call.subprofile_test_epochs.dict
                tested == TestedAt(call.subprofile_test_epochs, call.epoch)
            IN \E v \in WVals :
               \E c \in InferOutcomes(spe, tested) :
                  /\ model' = IF tested = {} THEN model ELSE infer_model(model, v)
                  /\ call' = [call EXCEPT
                        !.profile = Append(@, profile_this_epoch(call.epoch_start_time,
                                                                 call.profile_data)),
                        !.subprofile_test_results =
                            [e \in DOMAIN @ \cup tested |->
                               IF e \in tested
                               THEN [t \in DOMAIN spe[e] |-> infer_acc(spe[e][t], c[e][t])]
                               ELSE @[e]],
                        !.epoch = @ + 1,
                        !.phase_idx = 1,
                        !.epoch_start_time = call.clock,
                        !.clock = @ + 1,
                        !.profile_data = EmptyDict]
                  /\ pc' = IF call.epoch + 1 = call.num_epochs THEN "finish" ELSE "phase"
                  /\ UNCHANGED ret
    /\ UNCHANGED <<hyperparameters, params_to_update, files, hist>>

\* lines 186-192: the best weights are loaded and the results returned
TrainReturn ==
    /\ pc = "finish"
    /\ model' = load_state_dict(model, call.best_model_wts)
    /\ ret' = Returned("train_model", call.dataloaders,
                 [val_acc_history |-> call.val_acc_history,
                  best_acc |-> call.best_acc,
                  profile |-> call.profile,
                  subprofile_test_results |-> call.subprofile_test_results])
    /\ pc' = "idle"
    /\ UNCHANGED <<hyperparameters, params_to_update, files, call, hist>>

-----------------------------------------------------------------------------
Next ==
    \/ \E hp \in HyperChoices, pre \in BOOLEAN, rp \in Paths \cup {""}, v0 \in WVals :
          Resnet_init(hp, pre, rp, v0)
    \/ \E p \in Paths : save(p)
    \/ \E p \in Paths : load(p)
    \/ \E n \in 1..2 : infer(Loader(n))
    \/ \E d \in SmallDataloaderChoices, s \in SubprofileChoices :
          TrainBegin(d, s, 1)
    \/ TrainSubprofileOnly
    \/ TrainPhase
    \/ TrainEpochEnd
    \/ TrainReturn

Spec == Init /\ [][Next]_vars

(* One train_model call on a freshly constructed instance, over the full   *)
(* range of dataloaders, subprofile epochs and epoch counts.               *)
TrainHyper ==
    {WithClasses([num_hidden |-> 512, last_layer_only |-> l, model_name |-> "resnet18"]) :
        l \in BOOLEAN}

TrainInit ==
    \E hp \in TrainHyper, pre \in {TRUE}, v0 \in WVals :
       /\ hyperparameters = hp
       /\ model = BuildModel(hp, get_model_from_str(hp.model_name), pre, v0)
       /\ params_to_update = set_params_to_update(model, hp.last_layer_only)
       /\ files = [p \in Paths |-> NoFile]
       /\ pc = "idle"
       /\ call = NoCall
       /\ hist = NoHist
       /\ ret = Returned("Resnet", [hyperparameters |-> hp, restore_path |-> ""], None)

TrainNext ==
    \/ \E d \in DataloaderChoices, s \in SubprofileChoices, n \in 0..MaxEpochs :
          ret.op = "Resnet" /\ TrainBegin(d, s, n)
    \/ TrainSubprofileOnly
    \/ TrainPhase
    \/ TrainEpochEnd
    \/ TrainReturn

TrainSpec == TrainInit /\ [][TrainNext]_vars

(* train_model called again and again on one instance, every time with a   *)
(* train loader.                                                           *)
RetrainDataloaderChoices ==
    {d \in SmallDataloaderChoices : Lookup(d, "train") # None}

RetrainNext ==
    \/ \E d \in RetrainDataloaderChoices, s \in SubprofileChoices :
          TrainBegin(d, s, 1)
    \/ TrainPhase
    \/ TrainEpochEnd
    \/ TrainReturn

RetrainSpec == TrainInit /\ [][RetrainNext]_vars

-----------------------------------------------------------------------------
(* Properties *)

TrainReturned ==
    /\ pc = "idle"
    /\ ret.op = "train_model"
    /\ ret.status = "returned"

Trained == TrainReturned /\ Lookup(call.dataloaders, "train") # None
InferenceOnly == call # NoCall /\ Lookup(call.dataloaders, "train") = None

\* the index of the first validation phase whose accuracy no other exceeds
FirstBest(val_end) ==
    CHOOSE i \in 1..Len(val_end) :
        /\ \A j \in 1..Len(val_end) : ~Gt(val_end[j].acc, val_end[i].acc)
        /\ \A j \in 1..(i - 1) : Gt(val_end[i].acc, val_end[j].acc)

SomeValAbove0(val_end) == \E i \in 1..Len(val_end) : Gt(val_end[i].acc, RatZero)

\* C1: when train_model returns after training, the model's weights are those
\* it had at the end of the val phase of the first epoch whose validation
\* accuracy is the maximum of the call, and best_acc is that maximum; when no
\* val phase reached an accuracy above 0 (or there is no val phase) the
\* weights are those from before the call and best_acc is 0.0.
C1_BestCheckpoint ==
    Trained =>
        IF SomeValAbove0(hist.val_end)
        THEN /\ model.wts = hist.val_end[FirstBest(hist.val_end)].wts
             /\ ret.value.best_acc = hist.val_end[FirstBest(hist.val_end)].acc
        ELSE /\ model.wts = hist.wts_before
             /\ ret.value.best_acc = RatZero

\* a call whose best epoch is followed by a worse one that moved the weights
C1_Witness ==
    /\ Trained
    /\ Len(hist.val_end) = 2
    /\ Gt(hist.val_end[1].acc, hist.val_end[2].acc)
    /\ hist.val_end[1].wts # hist.val_end[2].wts
    /\ hist.val_end[1].wts # hist.wts_before
    /\ model.wts = hist.val_end[1].wts

\* C2 as stated: in every epoch the scheduler is stepped exactly once, with
\* the loss measured on the val phase of that epoch.
C2_SteppedWithValLoss ==
    (pc = "epoch_end" /\ HasKey(call.dataloaders, "val")) =>
        /\ Len(call.scheduler) = call.epoch + 1
        /\ RatEq(call.scheduler[call.epoch + 1], call.profile_data["val"].loss)

\* C2 amended: in every epoch the scheduler is stepped exactly once, with the
\* loss measured on the train phase of that epoch; the same holds of every
\* epoch already profiled (field 3 of a profile entry is the train loss).
C2_SteppedWithTrainLoss ==
    (call # NoCall /\ ~InferenceOnly) =>
        /\ Len(call.scheduler) <= call.epoch + 1
        /\ \A e \in 1..Len(call.profile) : call.scheduler[e] = call.profile[e][3]
        /\ pc = "epoch_end" =>
              /\ Len(call.scheduler) = call.epoch + 1
              /\ call.scheduler[call.epoch + 1] = call.profile_data["train"].loss

\* the second epoch ends with a train loss that is not the validation loss
C2_Witness ==
    /\ pc = "epoch_end"
    /\ call.epoch = 1
    /\ HasKey(call.dataloaders, "val")
    /\ ~RatEq(call.profile_data["train"].loss, call.profile_data["val"].loss)
    /\ Len(call.scheduler) = 2

Frozen(m) == {p \in DOMAIN m.requires_grad : ~m.requires_grad[p]}
HeadParams == {"fc", "out"}

\* C3: with last_layer_only the backbone is frozen and params_to_update is
\* exactly the head, each of its parameters trainable; without it nothing is
\* frozen and, after construction, params_to_update covers every parameter.
\* No restore, train_model, infer, save or load changes what is frozen.
C3_FreezingPolicy ==
    model # None =>
        /\ DOMAIN model.requires_grad = {"backbone"} \cup HeadParams
        /\ IF hyperparameters.last_layer_only
           THEN /\ Frozen(model) = {"backbone"}
                /\ params_to_update.items = HeadParams
           ELSE /\ Frozen(model) = {}
                /\ (ret.op = "Resnet" /\ ret.status = "returned") =>
                       params_to_update.items = DOMAIN model.requires_grad

\* a head-only instance whose training moved its weights, with a checkpoint
\* on disk
C3_Witness ==
    /\ TrainReturned
    /\ Lookup(call.dataloaders, "train") # None
    /\ hyperparameters.last_layer_only
    /\ model.wts # hist.wts_before
    /\ files["ckpt"] # NoFile

\* C4, on states: save stores the model's state; a load that returns leaves
\* the weights equal to the stored ones, and a load on an instance of the
\* stored structure returns; a constructor given restore_path and
\* hyperparameters of the stored structure returns a model with the stored
\* weights.
C4_Stored ==
    /\ (ret.op = "save") => files[ret.args] = state_dict(model)
    /\ (ret.op = "load" /\ files[ret.args] # NoFile /\ files[ret.args].arch = model.arch) =>
           /\ ret.status = "returned"
           /\ model.wts = files[ret.args].wts
    /\ (ret.op = "Resnet" /\ ret.status = "returned" /\ ret.args.restore_path # "") =>
           /\ model.wts = files[ret.args.restore_path].wts
           /\ model.arch = files[ret.args.restore_path].arch

\* C4: the state W stored by save(path) stays on disk through every later
\* train_model, infer, load and construction (only another save replaces
\* it), so load(path) and a constructor given restore_path = path yield W.
C4_RoundTrip ==
    /\ []C4_Stored
    /\ [][files' # files => ret'.op = "save"]_vars

\* a new head-only instance restored from a checkpoint whose weights differ
\* from the pretrained and freshly initialised ones, after the saving
\* instance went on training
C4_Witness ==
    /\ ret.op = "Resnet"
    /\ ret.status = "returned"
    /\ ret.args.restore_path = "ckpt"
    /\ model.wts = files["ckpt"].wts
    /\ model.wts["bn"] = 1
    /\ model.wts["fc"] # model.wts["out"]

\* C5, on states: infer returns the number of correct predictions over the
\* size of the dataset; a train_model call without a train loader that
\* returns has tested every task of every epoch key, returns an empty
\* val_acc_history, best_acc 0.0 and an empty profile, and leaves the
\* weights as they were before the call.
C5_Results ==
    /\ (ret.op = "infer") =>
           /\ ret.status = "returned"
           /\ ret.value.acc = Rat(ret.value.corrects, ret.args.n)
    /\ (TrainReturned /\ InferenceOnly) =>
           /\ ret.value.val_acc_history = <<>>
           /\ ret.value.best_acc = RatZero
           /\ ret.value.profile = <<>>
           /\ model.wts = hist.wts_before
           /\ LET spe == call.subprofile_test_epochs.dict
                  res == ret.value.subprofile_test_results
              IN /\ DOMAIN res = DOMAIN spe
                 /\ \A e \in DOMAIN spe : DOMAIN res[e] = DOMAIN spe[e]

\* C5: no step of infer, and no step of a train_model call without a train
\* loader, changes the model's weights.
C5_InferenceOnly ==
    /\ []C5_Results
    /\ [][(ret'.op = "infer" \/ InferenceOnly') => model'.wts = model.wts]_vars

\* an inference-only call that tested two epoch keys on a model that was in
\* training mode with moved batch-norm statistics
C5_Witness ==
    /\ TrainReturned
    /\ InferenceOnly
    /\ Cardinality(DOMAIN ret.value.subprofile_test_results) = 2
    /\ model.wts["bn"] = 1
    /\ model.wts["backbone"] = 0

\* the dict given as subprofile_test_epochs (no key when it is None)
SpeDict(c) ==
    IF c.subprofile_test_epochs = None THEN EmptyDict ELSE c.subprofile_test_epochs.dict

\* C6 as stated: every epoch key of subprofile_test_epochs is tested and is a
\* key of the returned subprofile_test_results.
C6_EveryKeyTested ==
    TrainReturned =>
        \A e \in DOMAIN SpeDict(call) :
            /\ e \in DOMAIN ret.value.subprofile_test_results
            /\ DOMAIN ret.value.subprofile_test_results[e] =
                  DOMAIN SpeDict(call)[e]

\* the epoch keys a call tests
KeysTested(c) ==
    IF Lookup(c.dataloaders, "train") = None
    THEN DOMAIN SpeDict(c)
    ELSE {e \in DOMAIN SpeDict(c) : 0 <= e /\ e < c.num_epochs}

C6_Returned ==
    TrainReturned =>
        LET spe == SpeDict(call)
            res == ret.value.subprofile_test_results
        IN /\ DOMAIN res = KeysTested(call)
           /\ \A e \in DOMAIN res :
                 /\ DOMAIN res[e] = DOMAIN spe[e]
                 /\ \A t \in DOMAIN res[e] :
                       /\ res[e][t].den = spe[e][t].n
                       /\ res[e][t].num \in 0..spe[e][t].n

\* the step of a training call that adds key e to the results is the end of
\* epoch e, after all its phases; it leaves the weights alone and the results
\* are final before the next epoch starts
C6_Step ==
    (pc = "epoch_end" /\ pc' # "idle") =>
        /\ call.phase_idx = Len(call.dataloaders) + 1
        /\ DOMAIN call'.subprofile_test_results \ DOMAIN call.subprofile_test_results
              = DOMAIN SpeDict(call) \cap {call.epoch}
        /\ call'.epoch = call.epoch + 1
        /\ model'.wts = model.wts

C6_OtherStep ==
    (pc \in {"phase", "finish"}) =>
        call'.subprofile_test_results = call.subprofile_test_results

\* C6 amended: the returned subprofile_test_results has exactly the keys e of
\* subprofile_test_epochs with 0 <= e < num_epochs when training runs (every
\* key when there is no train loader), each mapping every task id listed for
\* e to that task's accuracy; when training runs, the tests for e are run
\* after all phases of epoch e and before epoch e+1, on the weights current
\* at that moment.
C6_TestedEpochs ==
    /\ []C6_Returned
    /\ [][C6_Step /\ C6_OtherStep]_vars

\* a training call that tested epoch 0 and was also given a key no epoch has
C6_Witness ==
    /\ Trained
    /\ DOMAIN SpeDict(call) = {0, MaxEpochs}
    /\ DOMAIN ret.value.subprofile_test_results = {0}
    /\ call.num_epochs = MaxEpochs
    /\ model.wts # hist.wts_before

Phases == <<"train", "val", "test">>

\* C7: after training the returned profile has num_epochs entries in epoch
\* order, each of 13 fields: the epoch's start timestamp, then time, loss,
\* acc and num_samples of train, val and test; the four fields of a phase
\* that is no key of dataloaders are 0, and num_samples of a phase that is a
\* key is the size of its dataset.
C7_Profile ==
    Trained =>
        LET profile == ret.value.profile
        IN /\ Len(profile) = call.num_epochs
           /\ \A e \in 1..Len(profile) :
                 /\ Len(profile[e]) = 13
                 /\ profile[e][1] \in Nat
                 /\ e > 1 => profile[e][1] > profile[e - 1][1]
                 /\ \A i \in 1..3 :
                       LET time == profile[e][4 * i - 2]
                           loss == profile[e][4 * i - 1]
                           acc == profile[e][4 * i]
                           num_samples == profile[e][4 * i + 1]
                       IN IF HasKey(call.dataloaders, Phases[i])
                          THEN /\ num_samples = Lookup(call.dataloaders, Phases[i]).n
                               /\ acc.den = num_samples
                               /\ loss.den = num_samples
                          ELSE /\ time = 0
                               /\ loss = RatZero
                               /\ acc = RatZero
                               /\ num_samples = 0

\* two profiled epochs of a call with a val loader and no test loader
C7_Witness ==
    /\ Trained
    /\ Len(ret.value.profile) = 2
    /\ HasKey(call.dataloaders, "val")
    /\ ~HasKey(call.dataloaders, "test")
    /\ ret.value.profile[2][9] = 2

\* C8: a constructor given a dict with exactly the keys num_hidden,
\* last_layer_only and model_name returns when model_name is one of the four
\* resnets, and raises 'Model ... not found' otherwise.
C8_ThreeKeysSuffice ==
    (ret.op = "Resnet" /\ ret.args.hyperparameters \in ThreeKeyHyper
        /\ ret.args.restore_path = "") =>
        IF ret.args.hyperparameters.model_name
              \in {"resnet18", "resnet50", "resnet101", "resnet152"}
        THEN ret.status = "returned"
        ELSE ret.exc = "Exception: Model not found"

\* C9: for either value of last_layer_only, every train_model call of a
\* sequence of calls with a train loader builds its optimizer, over the same
\* non-empty set of trainable parameters as the first.
C9_OptimizerEveryCall ==
    (ret.op = "train_model") =>
        /\ ret.exc # "ValueError: optimizer got an empty parameter list"
        /\ call # NoCall =>
              call.optimizer = {p \in DOMAIN model.requires_grad : model.requires_grad[p]}
====
